---------------------------- MODULE Spec2Model ----------------------------
(***************************************************************************)
(* A model of nakamoto-p2p/src/prototype.rs: the protocol engine `Rpc`     *)
(* (module protocol) stepped by arbitrary events, the in-memory simulator  *)
(* of its test module, the pure function `Rpc::is_synced`, and the threads *)
(* and channels of reactor::run (module reactor).                          *)
(***************************************************************************)
EXTENDS Integers, Sequences, FiniteSets, Bags, TLC

VARIABLES
    env,        \* the inputs of the run: addresses, links, heights, times
    rpc,        \* the engine under test (struct Rpc)
    panicked,   \* whether a call of step panicked (the engine is gone)
    synced,     \* the values the calls of is_synced returned   (SpecSync)
    sim,        \* simulator: addr -> [proto, queue]          (SpecSim)
    events,     \* simulator: the `events` vector             (SpecSim)
    order,      \* simulator: iteration order of the HashMap  (SpecSim)
    simpc,      \* simulator: position in simulator::run      (SpecSim)
    ix,         \* simulator: position in the loop over `sim` (SpecSim)
    nmsgs,      \* simulator: messages emitted so far         (SpecSim)
    reader,     \* reactor: addr -> the reader thread of the peer   (SpecReactor)
    events_chan,\* reactor: the events channel                      (SpecReactor)
    cmds_chan,  \* reactor: the commands channel                    (SpecReactor)
    main,       \* reactor: the thread that runs reactor::run       (SpecReactor)
    writer,     \* reactor: the thread that runs Writer::thread     (SpecReactor)
    log         \* reactor: what the threads have done so far       (SpecReactor)

vars == <<env, rpc, panicked, synced, sim, events, order, simpc, ix, nmsgs,
          reader, events_chan, cmds_chan, main, writer, log>>
simVars == <<sim, events, order, simpc, ix, nmsgs>>
engineVars == <<rpc, panicked, synced>>
reactorVars == <<reader, events_chan, cmds_chan, main, writer, log>>

---------------------------------------------------------------------------
(* Bounds of the model.                                                    *)

\* Remote peers of Spec, the specification of the per-peer behaviour.
MaxPeers == 2
\* Addresses of SpecNet that send no Connected event (beside the
\* PEER_CONNECTION_THRESHOLD peers that do).
MaxStrangers == 1
\* Samples the adjusted clock holds at most (a re-handshake adds another).
MaxSamples == 3
\* Largest tree height of SpecSync.
MaxTree == 2

(* Program constants.                                                      *)
SYNC_THRESHOLD == 144
PEER_CONNECTION_THRESHOLD == 3
USER_AGENT == "/nakamoto:0.0.0/"

\* The engine's own address (never a remote peer).
LocalAddr == 0
Links == {"Outbound", "Inbound"}

\* Config::network.magic() of the engine, and a magic of another network.
Magic == "mainnet"
OtherMagic == "testnet"

None == "None"
Some == "Some"

---------------------------------------------------------------------------
(* enum PeerState, Handshake, Synchronize, State                           *)

AwaitingVersion == <<"Handshake", "AwaitingVersion">>
AwaitingVerack == <<"Handshake", "AwaitingVerack">>
HandshakeDone == <<"Handshake", "Done">>
Handshake_default == AwaitingVersion
Synchronize_default == <<"Synchronize", "RequestedHeaders">>

Connecting == <<"Connecting">>
Synced == <<"Synced">>
InitialSync(p) == <<"InitialSync", p>>

(* Messages: NetworkMessage payloads and RawNetworkMessage frames.         *)
Verack == [cmd |-> "verack"]
Ping == [cmd |-> "ping"]
VersionMessage(ts, sh, recv, sender) ==
    [cmd |-> "version", timestamp |-> ts, start_height |-> sh,
     receiver |-> recv, sender |-> sender, nonce |-> 0,
     user_agent |-> USER_AGENT]
Raw(magic, payload) == [magic |-> magic, payload |-> payload]

(* enum Event                                                              *)
Connected(addr, local_addr, link) ==
    [kind |-> "Connected", addr |-> addr, local_addr |-> local_addr, link |-> link]
Received(addr, msg) == [kind |-> "Received", addr |-> addr, msg |-> msg]
Sent(addr, nbytes) == [kind |-> "Sent", addr |-> addr, nbytes |-> nbytes]
Error(addr, err) == [kind |-> "Error", addr |-> addr, err |-> err]

---------------------------------------------------------------------------
(* AdjustedTime<PeerId>: a multiset of (peer, offset) samples.             *)
AdjustedTime_new == EmptyBag
add_sample(clock, addr, offset) == clock (+) SetToBag({<<addr, offset>>})

(* Rpc::new                                                                *)
Rpc_new(tree) ==
    [peers |-> <<>>, state |-> Connecting, tree |-> tree,
     clock |-> AdjustedTime_new, connected |-> {}, disconnected |-> {}]

(* Peer::new                                                               *)
Peer_new(address, local_address, state, link) ==
    [address |-> address, local_address |-> local_address, height |-> 0,
     time_offset |-> 0, last_active |-> None, state |-> state, link |-> link]

\* HashMap::insert on the peer table
Insert(peers, addr, peer) ==
    [q \in (DOMAIN peers) \cup {addr} |-> IF q = addr THEN peer ELSE peers[q]]

(* Rpc::connect                                                            *)
connect(r, addr, local_addr, link) ==
    [r EXCEPT !.disconnected = @ \ {addr},
              !.peers = Insert(@, addr,
                  Peer_new(addr, local_addr, Handshake_default, link))]

(* Rpc::initial_sync                                                       *)
initial_sync(r, peer) == [r EXCEPT !.state = InitialSync(peer)]

SetMin(S) == CHOOSE m \in S : \A x \in S : m <= x

(* Integer types.  Height is u64, TimeOffset and the timestamp of a        *)
(* version message are i64, its start_height is i32.  The checker's        *)
(* integers are 32 bits wide, so the ends of the 64-bit ranges are scaled  *)
(* down: U64_MAX stands for 2^64 - 1 and I64_MAX for 2^63 - 1.  The code   *)
(* depends on the order of the values, on differences up to                *)
(* SYNC_THRESHOLD and on the wrap-around at the ends, which the scaling    *)
(* keeps.  An operation that leaves the range panics in a build with       *)
(* overflow checks (debug) and wraps in a build without (release):         *)
(* `wrapped` marks that case and `val` is the wrapped value.               *)
U64_MAX == 2000000000
I64_MAX == 1000000000
I64_MIN == -I64_MAX - 1

\* `start_height as Height`: i32 to u64, sign-extended
as_Height(i) == IF i >= 0 THEN i ELSE U64_MAX + (i + 1)

\* u64 addition a + b
U64Add(a, b) ==
    IF a <= U64_MAX - b THEN [wrapped |-> FALSE, val |-> a + b]
                        ELSE [wrapped |-> TRUE, val |-> a - (U64_MAX - b) - 1]

\* u64 subtraction a - b
U64Sub(a, b) ==
    IF a >= b THEN [wrapped |-> FALSE, val |-> a - b]
              ELSE [wrapped |-> TRUE, val |-> U64_MAX - (b - a) + 1]

\* i64 subtraction a - b
I64Sub(a, b) ==
    LET d == a - b
    IN  IF d < I64_MIN THEN [wrapped |-> TRUE, val |-> d + 2 * (I64_MAX + 1)]
        ELSE IF d > I64_MAX THEN [wrapped |-> TRUE, val |-> d - 2 * (I64_MAX + 1)]
        ELSE [wrapped |-> FALSE, val |-> d]
\* The threshold comparison with < for <=.
WithinThreshold_strict(d) == ~d.wrapped /\ d.val < SYNC_THRESHOLD
\* d <= SYNC_THRESHOLD for a u64 difference d (a wrapped one is far above it)
WithinThreshold(d) == ~d.wrapped /\ d.val <= SYNC_THRESHOLD

(* Rpc::is_synced: Ok(bool) or Err(NotConnected).  `underflow` tells       *)
(* whether the subtraction was evaluated with peer_height < height.        *)
is_synced(r) ==
    LET height == r.tree
        heights == {r.peers[p].height : p \in DOMAIN r.peers}
    IN  IF heights # {}
        THEN LET peer_height == SetMin(heights)
                 lhs == height >= peer_height
                 d == U64Sub(peer_height, height)
             IN  [ok |-> TRUE,
                  val |-> lhs \/ WithinThreshold(d),
                  underflow |-> ~lhs /\ d.wrapped]
        ELSE [ok |-> FALSE, val |-> FALSE, underflow |-> FALSE]

(* Peer::transition                                                        *)
transition(peer, state) == [peer EXCEPT !.state = state]

(* Peer::receive_version, the ways it panics: the addition of line 239 or  *)
(* the subtraction of line 248 leaves its range in a build with overflow   *)
(* checks, or the todo!() of line 242 is reached.                          *)
receive_version_panics(msg, local_time, checks) ==
    LET height == 0
        limit == U64Add(as_Height(msg.start_height), 1)
    IN  \/ checks /\ limit.wrapped
        \/ height > limit.val
        \/ checks /\ I64Sub(msg.timestamp, local_time).wrapped

(* Peer::receive_version, when it returns                                  *)
receive_version(peer, msg, local_time) ==
    transition([peer EXCEPT !.height = as_Height(msg.start_height),
                            !.time_offset = I64Sub(msg.timestamp, local_time).val],
               AwaitingVerack)

\* receive_verack that leaves the peer waiting for the verack.
receive_verack_stays(peer) == transition(peer, AwaitingVerack)

(* Peer::receive_verack                                                    *)
receive_verack(peer) == transition(peer, HandshakeDone)

(* Rpc::version.  Both callers pass start_height 0, which the cast to i32  *)
(* keeps.                                                                  *)
version(r, addr, local_addr, start_height, now) ==
    VersionMessage(now, start_height, addr, local_addr)

\* What a call returns besides the engine: the messages, or a panic.
Result(r, out) == [rpc |-> r, out |-> out, panic |-> FALSE]
Panic(r) == [rpc |-> r, out |-> <<>>, panic |-> TRUE]

\* Lines 363-366: what an inbound peer's `version` is answered with.
inbound_reply(r, addr, local_addr, now) ==
    << <<addr, version(r, addr, local_addr, 0, now)>>, <<addr, Verack>> >>

\* Rpc::receive with an AwaitingVerack arm that takes any message for the
\* verack.
receive_any_verack(r, addr, msg, sys) ==
    IF msg.magic # Magic THEN Panic(r)                  \* todo!()
    ELSE IF addr \notin DOMAIN r.peers THEN Panic(r)    \* "peer is not known"
    ELSE
      LET local_addr == r.peers[addr].local_address
          peer == [r.peers[addr] EXCEPT !.last_active = Some]
          r1 == [r EXCEPT !.peers[addr] = peer]
      IN  CASE peer.state = AwaitingVersion ->
                 IF msg.payload.cmd = "version"
                 THEN IF receive_version_panics(msg.payload, sys.now, sys.checks)
                      THEN Panic(r1)
                      ELSE LET r2 == [r1 EXCEPT !.peers[addr] =
                                     receive_version(peer, msg.payload, sys.now)]
                           IN  IF peer.link = "Inbound"
                               THEN Result(r2, inbound_reply(r2, addr, local_addr, sys.now))
                               ELSE Result(r2, <<>>)
                 ELSE Result(r1, <<>>)
            [] peer.state = AwaitingVerack ->
                 IF TRUE
                 THEN LET done == receive_verack(peer)
                          r2 == [r1 EXCEPT
                                   !.peers[addr] = done,
                                   !.connected = @ \cup {addr},
                                   !.clock = add_sample(@, addr, done.time_offset)]
                      IN  IF peer.link = "Outbound"
                          THEN Result(r2, << <<addr, Verack>> >>)
                          ELSE Result(r2, <<>>)
                 ELSE Result(r1, <<>>)
            [] peer.state = HandshakeDone ->
                 Result([r1 EXCEPT !.peers[addr].state = Synchronize_default], <<>>)
            [] OTHER -> Result(r1, <<>>)                 \* PeerState::Synchronize(_)

(* Rpc::receive.  `sys` is what the call reads from the platform: the      *)
(* system time `now` (one value for the whole call, the times are whole    *)
(* seconds) and whether the build checks arithmetic overflow.              *)
receive(r, addr, msg, sys) ==
    IF msg.magic # Magic THEN Panic(r)                  \* todo!()
    ELSE IF addr \notin DOMAIN r.peers THEN Panic(r)    \* "peer is not known"
    ELSE
      LET local_addr == r.peers[addr].local_address
          peer == [r.peers[addr] EXCEPT !.last_active = Some]
          r1 == [r EXCEPT !.peers[addr] = peer]
      IN  CASE peer.state = AwaitingVersion ->
                 IF msg.payload.cmd = "version"
                 THEN IF receive_version_panics(msg.payload, sys.now, sys.checks)
                      THEN Panic(r1)
                      ELSE LET r2 == [r1 EXCEPT !.peers[addr] =
                                     receive_version(peer, msg.payload, sys.now)]
                           IN  IF peer.link = "Inbound"
                               THEN Result(r2, inbound_reply(r2, addr, local_addr, sys.now))
                               ELSE Result(r2, <<>>)
                 ELSE Result(r1, <<>>)
            [] peer.state = AwaitingVerack ->
                 IF msg.payload = Verack
                 THEN LET done == receive_verack(peer)
                          r2 == [r1 EXCEPT
                                   !.peers[addr] = done,
                                   !.connected = @ \cup {addr},
                                   !.clock = add_sample(@, addr, done.time_offset)]
                      IN  IF peer.link = "Outbound"
                          THEN Result(r2, << <<addr, Verack>> >>)
                          ELSE Result(r2, <<>>)
                 ELSE Result(r1, <<>>)
            [] peer.state = HandshakeDone ->
                 Result([r1 EXCEPT !.peers[addr].state = Synchronize_default], <<>>)
            [] OTHER -> Result(r1, <<>>)                 \* PeerState::Synchronize(_)

\* The re-evaluation with > for >= in the comparison with the threshold.
\* The re-evaluation with an else branch: below the threshold the engine
\* falls back to Connecting.
reevaluate_falls_back(r, pick) ==
    IF Cardinality(r.connected) >= PEER_CONNECTION_THRESHOLD
    THEN LET s == is_synced(r)
         IN  IF s.ok
             THEN IF s.val
                  THEN [r EXCEPT !.state = Synced]
                  ELSE initial_sync(r, pick)
             ELSE [r EXCEPT !.state = Connecting]
    ELSE [r EXCEPT !.state = Connecting]

reevaluate_above(r, pick) ==
    IF Cardinality(r.connected) > PEER_CONNECTION_THRESHOLD
    THEN LET s == is_synced(r)
         IN  IF s.ok
             THEN IF s.val
                  THEN [r EXCEPT !.state = Synced]
                  ELSE initial_sync(r, pick)
             ELSE [r EXCEPT !.state = Connecting]
    ELSE r

(* Rpc::step, lines 303-318: the global state after the event.  `pick` is  *)
(* the member of `connected` that fastrand and the HashSet's order select. *)
reevaluate(r, pick) ==
    IF Cardinality(r.connected) >= PEER_CONNECTION_THRESHOLD
    THEN LET s == is_synced(r)
         IN  IF s.ok
             THEN IF s.val
                  THEN [r EXCEPT !.state = Synced]
                  ELSE initial_sync(r, pick)
             ELSE [r EXCEPT !.state = Connecting]        \* Err(NotConnected)
    ELSE r

\* Whether step's re-evaluation draws a random member of `connected`.
DrawsPeer(r) ==
    /\ Cardinality(r.connected) >= PEER_CONNECTION_THRESHOLD
    /\ LET s == is_synced(r) IN s.ok /\ ~s.val

\* The Error arm that drops every connected peer, not only the failed one.
on_error_clears(r, addr) ==
    Result([r EXCEPT !.connected = {},
                     !.disconnected = @ \cup {addr}], <<>>)

\* The Error arm that records the failure and leaves `connected` alone.
on_error_keeps(r, addr) ==
    Result([r EXCEPT !.disconnected = @ \cup {addr}], <<>>)

\* The Event::Error arm of step.
on_error(r, addr) ==
    Result([r EXCEPT !.connected = @ \ {addr},
                     !.disconnected = @ \cup {addr}], <<>>)

\* The event's own arm of the match in step.
dispatch(r, ev, sys) ==
    CASE ev.kind = "Connected" ->
           LET r1 == connect(r, ev.addr, ev.local_addr, ev.link)
           IN  IF ev.link = "Outbound"
               THEN Result(r1, << <<ev.addr, version(r1, ev.addr, ev.local_addr, 0, sys.now)>> >>)
               ELSE Result(r1, <<>>)
      [] ev.kind = "Received" -> receive(r, ev.addr, ev.msg, sys)
      [] ev.kind = "Sent" -> Result(r, <<>>)
      [] ev.kind = "Error" -> on_error(r, ev.addr)

\* The members of `connected` the random draw of step can select.
Picks(res) == IF ~res.panic /\ DrawsPeer(res.rpc) THEN res.rpc.connected ELSE {0}

\* The end of step: the re-evaluation, and the magic put on each message.
finish(res, pick) ==
    IF res.panic THEN res
    ELSE [rpc |-> reevaluate(res.rpc, pick),
          out |-> [i \in 1 .. Len(res.out) |->
                      <<res.out[i][1], Raw(Magic, res.out[i][2])>>],
          panic |-> FALSE]

(* Rpc::step                                                               *)
step(r, ev, sys, pick) == finish(dispatch(r, ev, sys), pick)

\* What a call can read from the platform under the inputs e.
Sys(e) == {[now |-> t, checks |-> e.checks] : t \in e.times}

\* All outcomes of step(ev): over the system time read and the random draw.
Steps(r, ev, e) ==
    UNION { LET res == dispatch(r, ev, sys)
            IN  {finish(res, pick) : pick \in Picks(res)}
            : sys \in Sys(e) }

\* The orders in which iter() can visit the HashSet S: the order depends on
\* the random keys of the set's hasher, not on its members alone.
HashOrders(S) ==
    {o \in [1 .. Cardinality(S) -> S] : \A x \in S : \E i \in DOMAIN o : o[i] = x}

\* Iterator::nth
nth(o, n) == o[n + 1]

\* fastrand::usize(..n) of a generator whose seed makes it draw `seed`
fastrand_usize(seed, n) == seed % n

\* All outcomes of step(ev) when the generator's seed is known: over the
\* system time read and the order of the HashSet `connected`.
StepsSeeded(r, ev, e, seed) ==
    UNION { LET res == dispatch(r, ev, sys)
            IN  IF ~res.panic /\ DrawsPeer(res.rpc)
                THEN LET drawn == fastrand_usize(seed, Cardinality(res.rpc.connected))
                     IN  {finish(res, nth(o, drawn)) : o \in HashOrders(res.rpc.connected)}
                ELSE {finish(res, 0)}
            : sys \in Sys(e) }

---------------------------------------------------------------------------
(* The engine stepped by any event for any address.  `env` fixes the sets  *)
(* the inputs are drawn from: `peers` send every kind of event,            *)
(* `strangers` every kind but Connected; `heights` and `timestamps` are    *)
(* the start_height and timestamp fields of the version messages received, *)
(* `times` the values SystemTime::now() takes, `trees` the heights of the  *)
(* block tree, and `checks` tells whether the build checks overflow.       *)

Env(peers, strangers, links, heights, timestamps, times, trees, checks) ==
    [peers |-> peers, strangers |-> strangers, links |-> links,
     heights |-> heights, timestamps |-> timestamps, times |-> times,
     trees |-> trees, checks |-> checks]

\* Frames a remote can send: any payload under the engine's magic, and a
\* frame of another network.
Payloads ==
    {VersionMessage(ts, sh, LocalAddr, 0) : ts \in env.timestamps, sh \in env.heights}
    \cup {Verack, Ping}
InMessages == {Raw(Magic, p) : p \in Payloads} \cup {Raw(OtherMagic, Verack)}
Addrs == env.peers \cup env.strangers

InitEngine ==
    /\ rpc \in {Rpc_new(h) : h \in env.trees}
    /\ panicked = FALSE
    /\ synced = <<>>
    /\ sim = <<>> /\ events = <<>> /\ order = <<>> /\ simpc = "off" /\ ix = 0 /\ nmsgs = 0
    /\ reader = <<>> /\ events_chan = <<>> /\ cmds_chan = <<>>
    /\ main = <<>> /\ writer = <<>> /\ log = <<>>

\* One call of step on the engine.
Call(ev) ==
    /\ ~panicked
    /\ \E res \in Steps(rpc, ev, env) :
         /\ BagCardinality(res.rpc.clock) <= MaxSamples
         /\ rpc' = res.rpc
         /\ panicked' = res.panic
    /\ UNCHANGED <<env, synced, simVars, reactorVars>>

StepConnected == \E addr \in env.peers, link \in env.links : Call(Connected(addr, LocalAddr, link))
StepReceived == \E addr \in Addrs, msg \in InMessages : Call(Received(addr, msg))
StepSent == \E addr \in Addrs : Call(Sent(addr, 24))
StepError == \E addr \in Addrs : Call(Error(addr, "io"))

Next == StepConnected \/ StepReceived \/ StepSent \/ StepError

(* Spec: MaxPeers peers, both links, either build; version messages with   *)
(* an ordinary start height and timestamp, and with the extreme ones a     *)
(* remote can put on the wire.                                             *)
Init ==
    /\ env \in {Env(1 .. MaxPeers, {}, Links, {-1, 145}, {I64_MIN, 101}, {100}, {0}, c)
                   : c \in BOOLEAN}
    /\ InitEngine

Spec == Init /\ [][Next]_vars

(* SpecNet: as many peers as the connection threshold asks for, and        *)
(* strangers; start heights on both sides of the sync threshold.           *)
InitNet ==
    /\ env = Env(1 .. PEER_CONNECTION_THRESHOLD,
                 PEER_CONNECTION_THRESHOLD + 1 .. PEER_CONNECTION_THRESHOLD + MaxStrangers,
                 {"Inbound"}, {145, 146}, {100}, {100}, {1}, TRUE)
    /\ InitEngine

SpecNet == InitNet /\ [][Next]_vars

---------------------------------------------------------------------------
(* SpecHeaders: Rpc::_receive_headers called on the engine between its     *)
(* steps, with header lists of bounded length and a block tree that        *)
(* accepts or rejects them.                                                *)

MaxHeaders == 2

\* Header lists: the headers are told apart by their position.
HeaderLists == {[i \in 1 .. n |-> i] : n \in 0 .. MaxHeaders}

\* Result<Option<(BlockHash, Height)>, Error>
Ok(val) == [ok |-> TRUE, val |-> val]
Err(err) == [ok |-> FALSE, err |-> err]

\* What tree.import_blocks(headers) at line 419 can answer: the tip and the
\* chain height after the import (the headers extend the chain or land on
\* a branch), or an error.
ImportResults(tree, headers) ==
    {Ok(<<headers[Len(headers)], h>>) : h \in tree .. tree + Len(headers)}
    \cup {Err("tree")}

\* A call of _receive_headers: the engine after it, the value returned,
\* the number of calls of tree.import_blocks, and whether it panicked.
Imported(r, ret, calls) == [rpc |-> r, ret |-> ret, calls |-> calls, panic |-> FALSE]
ImportPanic(r, calls) == [rpc |-> r, ret |-> Err("panic"), calls |-> calls, panic |-> TRUE]

(* Rpc::_receive_headers.  `imported` is the answer of the block tree,     *)
(* which is read only for a list that is not empty.                        *)
receive_headers(r, addr, headers, imported) ==
    IF headers = <<>>
    THEN Imported(r, Ok(None), 0)                       \* return Ok(None)
    ELSE IF imported.ok
         THEN LET r1 == [r EXCEPT !.tree = imported.val[2]]
              IN  IF addr \notin DOMAIN r.peers
                  THEN ImportPanic(r1, 1)               \* get_mut(..).unwrap()
                  ELSE Imported([r1 EXCEPT !.peers[addr].height = imported.val[2]],
                                Ok(imported.val), 1)
         ELSE Imported(r, Err(imported.err), 1)

\* All outcomes of _receive_headers(addr, headers) over the tree's answers.
HeaderImports(r, addr, headers) ==
    {receive_headers(r, addr, headers, imported) :
        imported \in IF headers = <<>> THEN {Err("unread")}
                     ELSE ImportResults(r.tree, headers)}

CallReceiveHeaders ==
    /\ ~panicked
    /\ \E addr \in Addrs, headers \in HeaderLists :
         \E res \in HeaderImports(rpc, addr, headers) :
            /\ res.rpc.tree <= MaxTree
            /\ rpc' = res.rpc
            /\ panicked' = res.panic
    /\ UNCHANGED <<env, synced, simVars, reactorVars>>

NextHeaders ==
    StepConnected \/ StepReceived \/ StepSent \/ StepError \/ CallReceiveHeaders

InitHeaders ==
    /\ env = Env(1 .. MaxPeers, MaxPeers + 1 .. MaxPeers + MaxStrangers, {"Outbound"}, {1}, {101}, {100}, {0}, TRUE)
    /\ InitEngine

SpecHeaders == InitHeaders /\ [][NextHeaders]_vars

---------------------------------------------------------------------------
(* SpecSync: is_synced called on an engine whose tree height and peer      *)
(* heights are drawn from bounded sets around the sync threshold.          *)

\* A peer as receive_version leaves it, with best height h.
PeerAt(addr, h) ==
    receive_version(Peer_new(addr, LocalAddr, Handshake_default, "Inbound"),
                    VersionMessage(100, h, LocalAddr, addr), 100)

\* Start heights that put a peer next to the tree, next to the threshold
\* above it, and at the top of the range.
SyncHeights ==
    (0 .. MaxTree + 1) \cup (SYNC_THRESHOLD - 1 .. SYNC_THRESHOLD + MaxTree + 2) \cup {-1}

\* Peer tables of at most MaxPeers peers.
SyncTables ==
    UNION { [S -> SyncHeights] : S \in SUBSET (1 .. MaxPeers) }

InitSync ==
    /\ env = Env({}, {}, {}, {}, {}, {}, 0 .. MaxTree, TRUE)
    /\ \E h \in env.trees, t \in SyncTables :
          rpc = [Rpc_new(h) EXCEPT !.peers = [a \in DOMAIN t |-> PeerAt(a, t[a])]]
    /\ panicked = FALSE
    /\ synced = <<>>
    /\ sim = <<>> /\ events = <<>> /\ order = <<>> /\ simpc = "off" /\ ix = 0 /\ nmsgs = 0
    /\ reader = <<>> /\ events_chan = <<>> /\ cmds_chan = <<>>
    /\ main = <<>> /\ writer = <<>> /\ log = <<>>

CallIsSynced ==
    /\ synced = <<>>
    /\ synced' = <<is_synced(rpc)>>
    /\ UNCHANGED <<env, rpc, panicked, simVars, reactorVars>>

NextSync == CallIsSynced

SpecSync == InitSync /\ [][NextSync]_vars

---------------------------------------------------------------------------
(* SpecSim: tests::simulator::run as test_handshake calls it.              *)

alice_addr == 1
bob_addr == 2

\* Vec::push of each item of a list, in order
Append_all(v, items) == v \o items

\* The for loop of lines 490-493: every (receiver, event) of `events`, in
\* order, is pushed to the back of its receiver's queue.
RECURSIVE prepare_queues(_, _)
prepare_queues(s, evs) ==
    IF evs = <<>> THEN s
    ELSE LET receiver == Head(evs)[1]
             e == Head(evs)[2]
         IN  prepare_queues([s EXCEPT ![receiver].queue = Append(@, e)], Tail(evs))

InitSim ==
    /\ env \in {Env({}, {}, {}, {}, {}, {100, 101}, {0}, c) : c \in BOOLEAN}
    /\ sim = [a \in {alice_addr, bob_addr} |-> [proto |-> Rpc_new(0), queue |-> <<>>]]
    /\ events = << <<alice_addr, Connected(bob_addr, alice_addr, "Outbound")>>,
                   <<bob_addr, Connected(alice_addr, bob_addr, "Inbound")>> >>
    /\ order \in {<<alice_addr, bob_addr>>, <<bob_addr, alice_addr>>}
    /\ simpc = "while"
    /\ ix = 0
    /\ nmsgs = 0
    /\ rpc = Rpc_new(0) /\ panicked = FALSE /\ synced = <<>>
    /\ reader = <<>> /\ events_chan = <<>> /\ cmds_chan = <<>>
    /\ main = <<>> /\ writer = <<>> /\ log = <<>>

\* The while condition fails: run returns.
SimQuiesce ==
    /\ simpc = "while"
    /\ events = <<>> /\ \A a \in DOMAIN sim : sim[a].queue = <<>>
    /\ simpc' = "done"
    /\ UNCHANGED <<env, rpc, panicked, synced, sim, events, order, ix, nmsgs, reactorVars>>

\* The while condition holds: the events are moved to the queues.
SimPrepare ==
    /\ simpc = "while"
    /\ ~(events = <<>> /\ \A a \in DOMAIN sim : sim[a].queue = <<>>)
    /\ sim' = prepare_queues(sim, events)
    /\ events' = <<>>
    /\ simpc' = "for"
    /\ ix' = 1
    /\ UNCHANGED <<env, rpc, panicked, synced, order, nmsgs, reactorVars>>

\* The next iteration of the for loop, or the while condition after the last.
SimAdvance ==
    IF ix = Len(order) THEN simpc' = "while" /\ ix' = 0
                       ELSE simpc' = "for" /\ ix' = ix + 1

\* One iteration of the loop over `sim` whose queue holds an event.
SimStep ==
    /\ simpc = "for"
    /\ LET peer == order[ix] IN
        /\ sim[peer].queue # <<>>
        /\ \E res \in Steps(sim[peer].proto, Head(sim[peer].queue), env) :
             IF res.panic
             THEN /\ simpc' = "panicked"
                  /\ UNCHANGED <<sim, events, ix, nmsgs>>
             ELSE /\ sim' = [sim EXCEPT ![peer].proto = res.rpc,
                                        ![peer].queue = Tail(@)]
                  /\ events' = Append_all(events,
                        [i \in 1 .. Len(res.out) |->
                            <<res.out[i][1], Received(peer, res.out[i][2])>>])
                  /\ nmsgs' = nmsgs + Len(res.out)
                  /\ SimAdvance
    /\ UNCHANGED <<env, rpc, panicked, synced, order, reactorVars>>

\* One iteration of the loop over `sim` whose queue is empty.
SimSkip ==
    /\ simpc = "for"
    /\ sim[order[ix]].queue = <<>>
    /\ SimAdvance
    /\ UNCHANGED <<env, rpc, panicked, synced, sim, events, order, nmsgs, reactorVars>>

NextSim == SimQuiesce \/ SimPrepare \/ SimStep \/ SimSkip

\* The simulator is one sequential loop: it takes its next step.
SpecSim == InitSim /\ [][NextSim]_vars /\ WF_vars(NextSim)

---------------------------------------------------------------------------
(* SpecReactor: reactor::run after its setup, with its threads: the main   *)
(* thread (the controller), one reader thread per address dialed, and the  *)
(* writer thread.  The protocol is the type parameter P of run: a call of  *)
(* step returns any list of messages for the peer of its event, or panics. *)

\* Addresses of the address book.
MaxDial == 2
\* Messages a socket delivers before its read fails.
MaxReads == 2
\* Messages one call of step returns at most.
MaxOut == 2
\* Messages all calls of step return at most.
MaxMsgs == 3

\* crossbeam::bounded(1), for both channels
CHANNEL_CAPACITY == 1

(* enum Command                                                            *)
Write(addr, msg) == [cmd |-> "Write", addr |-> addr, msg |-> msg]
Disconnect(addr) == [cmd |-> "Disconnect", addr |-> addr]
Quit == [cmd |-> "Quit"]

\* The i-th message decoded from the socket of addr.
Frame(addr, i) == [from |-> addr, seq |-> i]
\* The k-th message the protocol returned; `fits` tells whether its
\* encoding fits the buffer of MAX_MESSAGE_SIZE bytes of Writer::write.
OutMsg(k, fits) == [id |-> k, fits |-> fits]

\* A thread that has returned or panicked has dropped what it owned.
MainGone == main.pc \in {"done", "panicked"}
WriterGone == writer.pc \in {"done", "panicked"}
ReaderGone(p) == reader[p].pc = "done"
\* Every Sender of the events channel is dropped: each reader owns a clone
\* (line 746) and the writer thread owns the original (line 761).
EventsSendersDropped == WriterGone /\ \A p \in DOMAIN reader : ReaderGone(p)

InitReactor ==
    /\ env = Env(1 .. MaxDial, {}, {"Outbound"}, {}, {}, {}, {0}, TRUE)
    /\ reader = [p \in env.peers |->
                    [pc |-> "send", ev |-> Connected(p, LocalAddr, "Outbound"), nread |-> 0]]
    /\ events_chan = <<>>
    /\ cmds_chan = <<>>
    /\ main = [pc |-> "recv", msgs |-> <<>>]
    /\ writer = [pc |-> "recv", peers |-> env.peers, ev |-> <<>>]
    /\ log = [produced |-> [p \in env.peers |-> <<>>],
              taken |-> [p \in env.peers |-> <<>>],
              emitted |-> <<>>, written |-> <<>>, reported |-> <<>>]
    /\ rpc = Rpc_new(0) /\ panicked = FALSE /\ synced = <<>>
    /\ sim = <<>> /\ events = <<>> /\ order = <<>> /\ simpc = "off" /\ ix = 0 /\ nmsgs = 0

\* Reader::run without the break of line 645: it reads on after an error.
ReaderSend_on(p) ==
    /\ reader[p].pc = "send"
    /\ IF MainGone
       THEN /\ reader' = [reader EXCEPT ![p].pc = "done"]
            /\ UNCHANGED <<events_chan, log>>
       ELSE /\ Len(events_chan) < CHANNEL_CAPACITY
            /\ events_chan' = Append(events_chan, reader[p].ev)
            /\ log' = [log EXCEPT !.produced[p] = Append(@, reader[p].ev)]
            /\ reader' = [reader EXCEPT
                 ![p].pc = "read"]
    /\ UNCHANGED <<env, engineVars, simVars, cmds_chan, main, writer>>

(* Reader::run, the sends of lines 637, 642 and 644: the send blocks while *)
(* the channel is full, and fails once the receiver is dropped (the `?`    *)
(* then returns from run).  After the Error event is sent, run returns.    *)
ReaderSend(p) ==
    /\ reader[p].pc = "send"
    /\ IF MainGone
       THEN /\ reader' = [reader EXCEPT ![p].pc = "done"]
            /\ UNCHANGED <<events_chan, log>>
       ELSE /\ Len(events_chan) < CHANNEL_CAPACITY
            /\ events_chan' = Append(events_chan, reader[p].ev)
            /\ log' = [log EXCEPT !.produced[p] = Append(@, reader[p].ev)]
            /\ reader' = [reader EXCEPT
                 ![p].pc = IF reader[p].ev.kind = "Error" THEN "done" ELSE "read"]
    /\ UNCHANGED <<env, engineVars, simVars, cmds_chan, main, writer>>

(* Reader::run, line 641: self.read() returns the next message of the      *)
(* socket, or an error (the socket has a read timeout, line 801).          *)
ReaderRead(p) ==
    /\ reader[p].pc = "read"
    /\ \/ /\ reader[p].nread < MaxReads
          /\ reader' = [reader EXCEPT ![p] =
                 [pc |-> "send",
                  ev |-> Received(p, Frame(p, reader[p].nread + 1)),
                  nread |-> reader[p].nread + 1]]
       \/ reader' = [reader EXCEPT ![p].pc = "send", ![p].ev = Error(p, "read")]
    /\ UNCHANGED <<env, engineVars, simVars, events_chan, cmds_chan, main, writer, log>>

\* The lists a call of step can return for an event of peer addr when n
\* messages were returned before: messages for that peer, as those of
\* Rpc::step are.
StepOutputs(addr, n) ==
    LET most == IF MaxMsgs - n < MaxOut THEN MaxMsgs - n ELSE MaxOut
    IN  UNION { { [i \in 1 .. len |-> <<addr, OutMsg(n + i, f[i])>>]
                  : f \in [1 .. len -> BOOLEAN] }
                : len \in 0 .. most }

\* Whether an event is one a reader sends (the writer's are Sent, and Error
\* with the error of a write).
FromReader(ev) == ev.kind \in {"Connected", "Received"} \/ ev = Error(ev.addr, "read")

\* The log after `event` was passed to step, which returned `msgs`.
Stepped(event, msgs) ==
    [log EXCEPT !.taken = IF FromReader(event)
                          THEN [@ EXCEPT ![event.addr] = Append(@, event)]
                          ELSE @,
                !.emitted = @ \o msgs]

(* reactor::run, lines 764-768: an event is received and stepped.          *)
MainStep ==
    /\ main.pc = "recv"
    /\ events_chan # <<>>
    /\ events_chan' = Tail(events_chan)
    /\ \/ \E msgs \in StepOutputs(Head(events_chan).addr, Len(log.emitted)) :
            /\ main' = [pc |-> IF Len(msgs) = 0 THEN "recv" ELSE "send", msgs |-> msgs]
            /\ log' = Stepped(Head(events_chan), msgs)
       \/ /\ main' = [pc |-> "panicked", msgs |-> <<>>]
          /\ log' = Stepped(Head(events_chan), <<>>)
    /\ UNCHANGED <<env, engineVars, simVars, reader, cmds_chan, writer>>

\* The loop of lines 770-772 taking the messages from the back of the list.
MainSend_last ==
    /\ main.pc = "send"
    /\ IF WriterGone
       THEN /\ main' = [pc |-> "panicked", msgs |-> <<>>]
            /\ UNCHANGED cmds_chan
       ELSE /\ Len(cmds_chan) < CHANNEL_CAPACITY
            /\ cmds_chan' = Append(cmds_chan, Write(main.msgs[Len(main.msgs)][1], main.msgs[Len(main.msgs)][2]))
            /\ main' = [pc |-> IF Len(main.msgs) = 1 THEN "recv" ELSE "send",
                        msgs |-> SubSeq(main.msgs, 1, Len(main.msgs) - 1)]
    /\ UNCHANGED <<env, engineVars, simVars, reader, events_chan, writer, log>>

(* reactor::run, lines 770-772: the next message of the list is sent as a  *)
(* Write command; the send blocks while the channel is full, and the       *)
(* unwrap panics once the receiver is dropped.                             *)
MainSend ==
    /\ main.pc = "send"
    /\ IF WriterGone
       THEN /\ main' = [pc |-> "panicked", msgs |-> <<>>]
            /\ UNCHANGED cmds_chan
       ELSE /\ Len(cmds_chan) < CHANNEL_CAPACITY
            /\ cmds_chan' = Append(cmds_chan, Write(Head(main.msgs)[1], Head(main.msgs)[2]))
            /\ main' = [pc |-> IF Len(main.msgs) = 1 THEN "recv" ELSE "send",
                        msgs |-> Tail(main.msgs)]
    /\ UNCHANGED <<env, engineVars, simVars, reader, events_chan, writer, log>>

(* reactor::run, lines 779-782: recv_timeout returns Timeout.              *)
MainTimeout ==
    /\ main.pc = "recv"
    /\ events_chan = <<>>
    /\ ~EventsSendersDropped
    /\ main' = [main EXCEPT !.pc = "timedout"]
    /\ UNCHANGED <<env, engineVars, simVars, reader, events_chan, cmds_chan, writer, log>>

\* The Timeout arm does nothing: back to recv_timeout.
MainLoop ==
    /\ main.pc = "timedout"
    /\ main' = [main EXCEPT !.pc = "recv"]
    /\ UNCHANGED <<env, engineVars, simVars, reader, events_chan, cmds_chan, writer, log>>

(* reactor::run, lines 774-778 and 786-789: recv_timeout returns           *)
(* Disconnected, the loop is left, the readers (all returned) are joined   *)
(* and run returns.                                                        *)
MainDisconnected ==
    /\ main.pc = "recv"
    /\ events_chan = <<>>
    /\ EventsSendersDropped
    /\ main' = [main EXCEPT !.pc = "done"]
    /\ UNCHANGED <<env, engineVars, simVars, reader, events_chan, cmds_chan, writer, log>>

(* Writer::thread, lines 694-713: a command is received and handled, up to *)
(* the send of the event.  The unwrap of line 698 panics for an address    *)
(* without write half, and Writer::write panics when the message does not  *)
(* fit its buffer (line 684); the socket write succeeds or fails.          *)
WriterCmd ==
    /\ writer.pc = "recv"
    /\ cmds_chan # <<>>
    /\ cmds_chan' = Tail(cmds_chan)
    /\ LET cmd == Head(cmds_chan) IN
         CASE cmd.cmd = "Write" ->
                IF cmd.addr \notin writer.peers \/ ~cmd.msg.fits
                THEN /\ writer' = [writer EXCEPT !.pc = "panicked"]
                     /\ UNCHANGED log
                ELSE \E ok \in BOOLEAN :
                       /\ writer' = [writer EXCEPT
                            !.pc = "send",
                            !.ev = IF ok THEN Sent(cmd.addr, 24) ELSE Error(cmd.addr, "write")]
                       /\ log' = [log EXCEPT !.written =
                            Append(@, [addr |-> cmd.addr, msg |-> cmd.msg, ok |-> ok])]
           [] cmd.cmd = "Disconnect" ->
                /\ writer' = [writer EXCEPT !.peers = @ \ {cmd.addr}]
                /\ UNCHANGED log
           [] cmd.cmd = "Quit" ->
                /\ writer' = [writer EXCEPT !.pc = "done"]
                /\ UNCHANGED log
    /\ UNCHANGED <<env, engineVars, simVars, reader, events_chan, main>>

(* Writer::thread, line 694: recv fails once the channel is empty and its  *)
(* Sender is dropped, and the unwrap panics.                               *)
WriterHangup ==
    /\ writer.pc = "recv"
    /\ cmds_chan = <<>>
    /\ MainGone
    /\ writer' = [writer EXCEPT !.pc = "panicked"]
    /\ UNCHANGED <<env, engineVars, simVars, reader, events_chan, cmds_chan, main, log>>

(* Writer::thread, lines 702 and 705: the event is sent; the send blocks   *)
(* while the channel is full, and fails once the receiver is dropped.      *)
WriterSend ==
    /\ writer.pc = "send"
    /\ IF MainGone
       THEN /\ writer' = [writer EXCEPT !.pc = "done"]
            /\ UNCHANGED <<events_chan, log>>
       ELSE /\ Len(events_chan) < CHANNEL_CAPACITY
            /\ events_chan' = Append(events_chan, writer.ev)
            /\ log' = [log EXCEPT !.reported = Append(@, writer.ev)]
            /\ writer' = [writer EXCEPT !.pc = "recv"]
    /\ UNCHANGED <<env, engineVars, simVars, reader, cmds_chan, main>>

ReaderSends == \E p \in env.peers : ReaderSend(p)
ReaderReads == \E p \in env.peers : ReaderRead(p)

NextReactor ==
    \/ ReaderSends \/ ReaderReads
    \/ MainStep \/ MainSend \/ MainTimeout \/ MainLoop \/ MainDisconnected
    \/ WriterCmd \/ WriterHangup \/ WriterSend

\* The steps of each thread.
ReaderThread(p) == ReaderSend(p) \/ ReaderRead(p)
MainThread == MainStep \/ MainSend \/ MainTimeout \/ MainLoop \/ MainDisconnected
WriterThread == WriterCmd \/ WriterHangup \/ WriterSend

\* The operating system schedules every thread: one that can take a step
\* takes one in the end.
FairReactor ==
    /\ \A p \in 1 .. MaxDial : WF_vars(ReaderThread(p))
    /\ WF_vars(MainThread)
    /\ WF_vars(WriterThread)

SpecReactor == InitReactor /\ [][NextReactor]_vars /\ FairReactor

---------------------------------------------------------------------------
(* The claims.                                                             *)

PostHandshake(state) == state = HandshakeDone \/ state[1] = "Synchronize"
\* Minimum height over all records of the peer table of engine r.
MinPeerHeight(r) == SetMin({r.peers[p].height : p \in DOMAIN r.peers})
ErrorEvents == {Error(p, "io") : p \in Addrs}

\* A's record for B and B's record for A are in Handshake(Done).
BothDone ==
    /\ bob_addr \in DOMAIN sim[alice_addr].proto.peers
    /\ sim[alice_addr].proto.peers[bob_addr].state = HandshakeDone
    /\ alice_addr \in DOMAIN sim[bob_addr].proto.peers
    /\ sim[bob_addr].proto.peers[alice_addr].state = HandshakeDone
Quiescent == events = <<>> /\ \A a \in DOMAIN sim : sim[a].queue = <<>>

\* C1 (Handshake symmetry): the simulation of test_handshake always ends,
\* never has more than 4 messages emitted, and when it has ended no event
\* is pending and each engine's record of the other is in Handshake(Done).
C1_HandshakeSymmetry ==
    /\ [](nmsgs <= 4)
    /\ <>(simpc = "done")
    /\ [](simpc = "done" => Quiescent /\ BothDone)
C1_Witness == simpc = "done" /\ nmsgs = 4 /\ BothDone

\* C2: no peer is a member of both `connected` and `disconnected`.
C2_Disjoint == rpc.connected \cap rpc.disconnected = {}

\* C3: a peer of the table is in `connected` exactly when its state is
\* Handshake(Done) or Synchronize(_).
C3_ConnectedIffPostHandshake ==
    \A p \in DOMAIN rpc.peers :
        p \in rpc.connected <=> PostHandshake(rpc.peers[p].state)

\* C4: with PEER_CONNECTION_THRESHOLD or more peers in `connected`, the
\* global state is Synced if the tree is at or above the minimum height m
\* of all peer records or at most 144 below it, and otherwise
\* InitialSync(p) for a member p of `connected`.
C4_GlobalStateAtThreshold ==
    Cardinality(rpc.connected) >= PEER_CONNECTION_THRESHOLD =>
        LET m == MinPeerHeight(rpc) IN
        IF rpc.tree >= m \/ m - rpc.tree <= 144
        THEN rpc.state = Synced
        ELSE \E p \in rpc.connected : rpc.state = InitialSync(p)
C4_Witness ==
    /\ Cardinality(rpc.connected) >= PEER_CONNECTION_THRESHOLD
    /\ rpc.state[1] = "InitialSync"
    /\ MinPeerHeight(rpc) - rpc.tree = 145

\* C5 (sync threshold boundary): is_synced returns Err(NotConnected)
\* exactly for an empty peer table, and otherwise Ok(b) with b true exactly
\* when H >= m or m - H <= 144 (H the tree height, m the minimum peer
\* height), never subtracting below zero; a single peer at H + 144 gives
\* Ok(true), at H + 145 Ok(false).
C5_SyncThresholdBoundary ==
    synced # <<>> =>
        LET res == synced[1]
            H == rpc.tree
            tbl == rpc.peers
        IN  /\ res.ok <=> DOMAIN tbl # {}
            /\ ~res.underflow
            /\ res.ok =>
                  (res.val <=> (H >= MinPeerHeight(rpc) \/ MinPeerHeight(rpc) - H <= 144))
            /\ \A p \in DOMAIN tbl :
                  /\ (DOMAIN tbl = {p} /\ tbl[p].height = H + 144) => (res.ok /\ res.val)
                  /\ (DOMAIN tbl = {p} /\ tbl[p].height = H + 145) => (res.ok /\ ~res.val)
C5_Witness ==
    /\ synced # <<>>
    /\ \E p \in DOMAIN rpc.peers :
          DOMAIN rpc.peers = {p} /\ rpc.peers[p].height = rpc.tree + 144
    /\ rpc.tree > 0
    /\ synced[1].val

\* C6: the global state is Connecting whenever fewer than
\* PEER_CONNECTION_THRESHOLD peers are in `connected`.
C6_ConnectingBelowThreshold ==
    Cardinality(rpc.connected) < PEER_CONNECTION_THRESHOLD => rpc.state = Connecting

\* C7: in every engine state and for every address p, step(Error(p, err))
\* returns no message, leaves p out of `connected` and in `disconnected`,
\* and keeps p's record as it was.
C7_ErrorEffect ==
    \A ev \in ErrorEvents : \A res \in Steps(rpc, ev, env) :
        /\ ~res.panic
        /\ res.out = <<>>
        /\ ev.addr \notin res.rpc.connected
        /\ ev.addr \in res.rpc.disconnected
        /\ ev.addr \in DOMAIN rpc.peers =>
              /\ ev.addr \in DOMAIN res.rpc.peers
              /\ res.rpc.peers[ev.addr] = rpc.peers[ev.addr]
C7_Witness ==
    \E p \in DOMAIN rpc.peers :
        /\ p \in rpc.disconnected /\ p \notin rpc.connected
        /\ rpc.peers[p].state = HandshakeDone

\* C8: step(Error(p, _)) applied twice in a row leaves the engine as it is
\* after the first application.
C8_ErrorIdempotent ==
    \A ev \in ErrorEvents : \A once \in Steps(rpc, ev, env) :
        \A twice \in Steps(once.rpc, ev, env) : twice.rpc = once.rpc

\* C9: a frame of another network's magic from a known peer p returns no
\* message and changes nothing but p's move from `connected` to
\* `disconnected`, and the engine keeps running.
C9_MagicGate ==
    \A p \in DOMAIN rpc.peers :
        \A res \in Steps(rpc, Received(p, Raw(OtherMagic, Verack)), env) :
            /\ ~res.panic
            /\ res.out = <<>>
            /\ res.rpc = [rpc EXCEPT !.connected = @ \ {p},
                                     !.disconnected = @ \cup {p}]

\* C10 (inbound handshake script): Connected(p, local, Inbound) returns no
\* message; a version from an inbound p in Handshake(AwaitingVersion) returns
\* exactly (p, version), (p, verack) in that order and moves p to
\* Handshake(AwaitingVerack); the verack from an inbound p in
\* Handshake(AwaitingVerack) returns no message and moves p to Handshake(Done).
C10_InboundScript ==
    \A p \in env.peers :
        /\ \A res \in Steps(rpc, Connected(p, LocalAddr, "Inbound"), env) :
              ~res.panic /\ res.out = <<>>
        /\ (p \in DOMAIN rpc.peers /\ rpc.peers[p].link = "Inbound") =>
              /\ rpc.peers[p].state = AwaitingVersion =>
                    \A msg \in InMessages :
                        (msg.magic = Magic /\ msg.payload.cmd = "version") =>
                        \A res \in Steps(rpc, Received(p, msg), env) :
                            /\ ~res.panic
                            /\ Len(res.out) = 2
                            /\ res.out[1][1] = p
                            /\ res.out[1][2].magic = Magic
                            /\ res.out[1][2].payload.cmd = "version"
                            /\ res.out[2] = <<p, Raw(Magic, Verack)>>
                            /\ res.rpc.peers[p].state = AwaitingVerack
              /\ rpc.peers[p].state = AwaitingVerack =>
                    \A res \in Steps(rpc, Received(p, Raw(Magic, Verack)), env) :
                        /\ ~res.panic
                        /\ res.out = <<>>
                        /\ res.rpc.peers[p].state = HandshakeDone
\* All events the engine can be stepped with under the inputs of the run.
AllEvents ==
    {Connected(a, LocalAddr, l) : a \in env.peers, l \in env.links}
    \cup {Received(a, m) : a \in Addrs, m \in InMessages}
    \cup {Sent(a, 24) : a \in Addrs}
    \cup ErrorEvents

\* C11 (outbound handshake script): Connected(p, local, Outbound) returns
\* exactly (p, version); a version from an outbound p in
\* Handshake(AwaitingVersion) returns no message and moves p to
\* Handshake(AwaitingVerack); the verack from an outbound p in
\* Handshake(AwaitingVerack) returns exactly (p, verack) and moves p to
\* Handshake(Done); and a verack goes to an outbound peer only in the step
\* that receives that peer's verack.
C11_OutboundScript ==
    /\ \A p \in env.peers :
        /\ "Outbound" \in env.links =>
              \A res \in Steps(rpc, Connected(p, LocalAddr, "Outbound"), env) :
                  /\ ~res.panic
                  /\ Len(res.out) = 1
                  /\ res.out[1][1] = p
                  /\ res.out[1][2].magic = Magic
                  /\ res.out[1][2].payload.cmd = "version"
        /\ (p \in DOMAIN rpc.peers /\ rpc.peers[p].link = "Outbound") =>
              /\ rpc.peers[p].state = AwaitingVersion =>
                    \A msg \in InMessages :
                        (msg.magic = Magic /\ msg.payload.cmd = "version") =>
                        \A res \in Steps(rpc, Received(p, msg), env) :
                            /\ ~res.panic
                            /\ res.out = <<>>
                            /\ res.rpc.peers[p].state = AwaitingVerack
              /\ rpc.peers[p].state = AwaitingVerack =>
                    \A res \in Steps(rpc, Received(p, Raw(Magic, Verack)), env) :
                        /\ ~res.panic
                        /\ res.out = << <<p, Raw(Magic, Verack)>> >>
                        /\ res.rpc.peers[p].state = HandshakeDone
    /\ \A ev \in AllEvents : \A res \in Steps(rpc, ev, env) :
          \A i \in 1 .. Len(res.out) :
              (/\ res.out[i][2].payload = Verack
               /\ res.out[i][1] \in DOMAIN rpc.peers
               /\ rpc.peers[res.out[i][1]].link = "Outbound") =>
                  /\ ev = Received(res.out[i][1], Raw(Magic, Verack))
                  /\ rpc.peers[res.out[i][1]].state = AwaitingVerack

\* C12: step(Sent(p, nbytes)) returns no message and leaves the whole
\* engine as it was: peer table, connected, disconnected, clock and global
\* state, the peer designated in InitialSync(p) included.
C12_SentFrame ==
    \A a \in Addrs : \A res \in Steps(rpc, Sent(a, 24), env) :
        /\ ~res.panic
        /\ res.out = <<>>
        /\ res.rpc = rpc

\* C13: every peer in Handshake(Done) or Synchronize(_) has exactly one
\* sample in the adjusted clock, and its value is the peer's time_offset
\* (which is fixed from the version message on, so it is the value the peer
\* had on entering Handshake(Done)); also after a second handshake.
C13_OneSample ==
    \A p \in DOMAIN rpc.peers :
        PostHandshake(rpc.peers[p].state) =>
            /\ CopiesIn(<<p, rpc.peers[p].time_offset>>, rpc.clock) = 1
            /\ \A s \in BagToSet(rpc.clock) :
                  s[1] = p => s[2] = rpc.peers[p].time_offset

\* C14 (per-peer fault isolation): for distinct p and q, step(Error(p, _))
\* leaves q's record and q's membership in `connected` and in
\* `disconnected` as they were.
C14_FaultIsolation ==
    \A ev \in ErrorEvents : \A res \in Steps(rpc, ev, env) :
        \A q \in Addrs \ {ev.addr} :
            /\ ~res.panic
            /\ q \in DOMAIN rpc.peers <=> q \in DOMAIN res.rpc.peers
            /\ q \in DOMAIN rpc.peers => res.rpc.peers[q] = rpc.peers[q]
            /\ q \in rpc.connected <=> q \in res.rpc.connected
            /\ q \in rpc.disconnected <=> q \in res.rpc.disconnected
C14_Witness ==
    \E p \in DOMAIN rpc.peers, q \in DOMAIN rpc.peers :
        /\ p # q
        /\ p \in rpc.disconnected /\ p \notin rpc.connected
        /\ PostHandshake(rpc.peers[p].state)
        /\ q \in rpc.connected /\ q \notin rpc.disconnected
        /\ rpc.peers[q].state = HandshakeDone

\* C20: a frame of the engine's network that does not match the peer's
\* handshake sub-state (no version for a peer in Handshake(AwaitingVersion),
\* no verack for a peer in Handshake(AwaitingVerack)) returns no message
\* and changes nothing of the peer table, `connected`, `disconnected` and
\* the clock but the peer's last_active.
C20_Discard ==
    \A p \in DOMAIN rpc.peers : \A msg \in InMessages :
        (/\ msg.magic = Magic
         /\ \/ rpc.peers[p].state = AwaitingVersion /\ msg.payload.cmd # "version"
            \/ rpc.peers[p].state = AwaitingVerack /\ msg.payload # Verack) =>
        \A res \in Steps(rpc, Received(p, msg), env) :
            /\ ~res.panic
            /\ res.out = <<>>
            /\ res.rpc.peers = [rpc.peers EXCEPT ![p].last_active = Some]
            /\ res.rpc.connected = rpc.connected
            /\ res.rpc.disconnected = rpc.disconnected
            /\ res.rpc.clock = rpc.clock
C20_Witness ==
    \E p \in DOMAIN rpc.peers :
        /\ rpc.peers[p].state = AwaitingVersion
        /\ rpc.peers[p].last_active = Some
        /\ rpc.peers[p].height = 0 /\ rpc.peers[p].time_offset = 0

\* The values a seeded generator can draw for the sizes `connected` has.
Seeds == 0 .. Cardinality(Addrs) - 1

\* C19 (determinism): two engines in the same state, with the same seed
\* and given the same event, return the same messages and end in the same
\* state, the peer designated by InitialSync(p) included (even when both
\* read the same system time).
C19_Determinism ==
    \A ev \in AllEvents : \A seed \in Seeds :
        \A one \in StepsSeeded(rpc, ev, env, seed) :
            \A other \in StepsSeeded(rpc, ev, env, seed) : one = other

IsPrefix(a, b) == Len(a) <= Len(b) /\ \A i \in 1 .. Len(a) : a[i] = b[i]
\* The socket writes attempted so far, as (peer, message) pairs.
Writes == [i \in 1 .. Len(log.written) |-> <<log.written[i].addr, log.written[i].msg>>]
AllReadersGone == \A p \in DOMAIN reader : ReaderGone(p)

\* C18 (reactor shutdown): once every reader thread has terminated and no
\* event is pending, reactor::run returns in the end (or has panicked).
C18_Shutdown ==
    (AllReadersGone /\ events_chan = <<>>) ~> MainGone

\* C15 (reactor write ordering): the socket writes are attempted in the
\* order in which step returned their messages, those of one list in the
\* list's order and those of an earlier call before those of a later one.
C15_WriteOrder == IsPrefix(Writes, log.emitted)
C15_Witness ==
    /\ Len(log.written) >= 2
    /\ log.written[2].msg.id = 2
    /\ main.pc = "send"
    /\ Len(main.msgs) = 1
    /\ Head(main.msgs)[2].id = 3

\* The events a reader of peer p sends: Connected, then the messages of
\* the socket in the order decoded, then at most one Error, the last one.
ReaderScript(p, s) ==
    \A i \in 1 .. Len(s) :
        IF i = 1 THEN s[i] = Connected(p, LocalAddr, "Outbound")
        ELSE \/ s[i] = Received(p, Frame(p, i - 1))
             \/ s[i] = Error(p, "read") /\ i = Len(s)

\* C16 (reader event protocol): each reader sends Connected, then Received
\* for each message in the order decoded, then at most one Error, after
\* which it has returned; and step is called with a peer's events in the
\* order its reader sent them.
C16_ReaderProtocol ==
    \A p \in DOMAIN reader :
        /\ ReaderScript(p, log.produced[p])
        /\ (log.produced[p] # <<>> /\ log.produced[p][Len(log.produced[p])].kind = "Error")
              => ReaderGone(p)
        /\ IsPrefix(log.taken[p], log.produced[p])
C16_Witness ==
    \E p \in DOMAIN reader :
        /\ Len(log.taken[p]) = MaxReads + 2
        /\ log.taken[p] = log.produced[p]
        /\ ReaderGone(p)

\* C17 (writer command handling): every socket write is followed by one
\* event, Sent for a write that succeeded and Error for one that failed
\* (the event of the last write is lost only when the controller is gone);
\* once a failed write is reported the peer's write half is out of the
\* writer's table, and no further write is attempted on it.
C17_WriterCommands ==
    /\ \A i \in 1 .. Len(log.reported) :
          log.reported[i] = IF log.written[i].ok
                            THEN Sent(log.written[i].addr, 24)
                            ELSE Error(log.written[i].addr, "write")
    /\ Len(log.reported) <= Len(log.written)
    /\ Len(log.written) <= Len(log.reported) + (IF writer.pc = "send" \/ MainGone THEN 1 ELSE 0)
    /\ \A i \in 1 .. Len(log.written) :
          ~log.written[i].ok =>
              /\ i <= Len(log.reported) => log.written[i].addr \notin writer.peers
              /\ \A j \in i + 1 .. Len(log.written) :
                    log.written[j].addr # log.written[i].addr


\* The version messages among the messages a call returned.
VersionsOut(res) ==
    {res.out[i][2].payload : i \in {j \in 1 .. Len(res.out) : res.out[j][2].payload.cmd = "version"}}

\* C22 (version contents): every version message step returns, for an
\* outbound Connected and in reply to an inbound peer's version, carries
\* the block tree's height as start_height and the configured user agent.
C22_VersionContents ==
    \A ev \in AllEvents :
        \A res \in Steps(rpc, ev, env) :
            \A v \in VersionsOut(res) :
                /\ v.start_height = res.rpc.tree
                /\ v.user_agent = USER_AGENT

\* C24 (sync peer is connected): whenever the global state is
\* InitialSync(p), p is a member of `connected`.
C24_SyncPeerConnected ==
    rpc.state[1] = "InitialSync" => rpc.state[2] \in rpc.connected

\* C25 (state frame below the threshold): a step that ends with fewer than
\* PEER_CONNECTION_THRESHOLD peers in `connected` leaves the global state as
\* it was before the step, whatever the event.
C25_StateFrame ==
    \A ev \in AllEvents :
        \A res \in Steps(rpc, ev, env) :
            (~res.panic /\ Cardinality(res.rpc.connected) < PEER_CONNECTION_THRESHOLD)
                => res.rpc.state = rpc.state
C25_Witness ==
    /\ rpc.state = Synced
    /\ Cardinality(rpc.connected) = PEER_CONNECTION_THRESHOLD - 1
    /\ rpc.disconnected # {}


\* The controller waits in cmds_tx.send for room in the commands channel.
MainBlocked == main.pc = "send" /\ ~WriterGone /\ Len(cmds_chan) = CHANNEL_CAPACITY
\* The writer thread waits in events.send for room in the events channel.
WriterBlocked == writer.pc = "send" /\ ~MainGone /\ Len(events_chan) = CHANNEL_CAPACITY

\* C23 (reactor deadlock freedom): with both channels bounded to capacity
\* 1 and several readers, the controller is never blocked sending a Write
\* on the full commands channel while the writer thread is blocked sending
\* a Sent or Error event on the full events channel.
C23_NoMutualBlock == ~(MainBlocked /\ WriterBlocked)


\* C21 (header import): for a known peer p, an empty headers list moves p
\* to Synchronize(Done) without a call of the block tree; a list that is not
\* empty calls tree.import_blocks once, and then a successful import sets
\* p's height to the height returned, while a rejected one returns the
\* tree's error and leaves p's record as it was.
C21_HeaderImport ==
    \A p \in DOMAIN rpc.peers :
        \A headers \in HeaderLists :
            \A res \in HeaderImports(rpc, p, headers) :
                IF headers = <<>>
                THEN /\ ~res.panic
                     /\ res.calls = 0
                     /\ res.rpc.peers[p].state = <<"Synchronize", "Done">>
                ELSE /\ ~res.panic
                     /\ res.calls = 1
                     /\ res.ret.ok => res.rpc.peers[p].height = res.ret.val[2]
                     /\ ~res.ret.ok => /\ res.ret = Err("tree")
                                       /\ res.rpc.peers[p] = rpc.peers[p]

=============================================================================
